---- MODULE Spec2Model ----
(***************************************************************************)
(* Model of the two release scripts of the repository:                     *)
(*   scripts/sync_version.py        (Version Sync, pre-commit)             *)
(*   scripts/create_version_tag.py  (Tag Creator, post-commit)             *)
(*                                                                         *)
(* Text is a sequence of characters.  The eight characters "version:" are  *)
(* carried as the single symbol KEY; every other symbol is one character.  *)
(***************************************************************************)
EXTENDS Integers, Sequences, FiniteSets, TLC

\* ------------------------------------------------------------------ bounds
MaxDescLen == 4
MaxVerLen == 2
MaxRuns == 2
MaxCommits == 2
MaxTagRuns == 2

\* ------------------------------------------------------------- characters
KEY == "version:"
SP == " "
NL == "\n"
BS == "\\"
DescChar == {KEY, SP, NL, "1"}
VerChar == {"1", SP, BS}

SeqsUpTo(S, n) == UNION {[1..k -> S] : k \in 0..n}

IsSpace(c) == c \in {SP, NL}

IsDigit(c) == c = "1"

\* chr(0o111), what the template escape \111 stands for
OCT111 == "I"

\* ------------------------------------------------------- str.strip()
RECURSIVE lstrip(_)
lstrip(s) ==
    IF s # <<>> /\ IsSpace(Head(s)) THEN lstrip(Tail(s)) ELSE s

RECURSIVE rstrip(_)
rstrip(s) ==
    IF s # <<>> /\ IsSpace(s[Len(s)]) THEN rstrip(SubSeq(s, 1, Len(s) - 1)) ELSE s

strip(s) == rstrip(lstrip(s))

Max(S) == CHOOSE m \in S : \A x \in S : x <= m

Min(S) == CHOOSE m \in S : \A x \in S : m <= x

\* str.split('\n')
RECURSIVE SplitNL(_)
SplitNL(s) ==
    LET nls == {i \in 1..Len(s) : s[i] = NL}
    IN IF nls = {} THEN <<s>>
       ELSE <<SubSeq(s, 1, Min(nls) - 1)>> \o SplitNL(SubSeq(s, Min(nls) + 1, Len(s)))

\* ---------------------------------- the pattern ^version:\s*(.+)$ (MULTILINE)
\* '^' : start of the text or just after a newline
LineStart(s, i) == i = 1 \/ s[i - 1] = NL

\* last position of the line that contains position p (p is not a newline)
EndOfLine(s, p) ==
    CHOOSE e \in p..Len(s) :
        /\ \A j \in p..e : s[j] # NL
        /\ e = Len(s) \/ s[e + 1] = NL

\* positions reachable by \s* after the key at i: i+1 .. i+1+(run of whitespace)
SpaceRunEnd(s, i) ==
    CHOOSE p \in (i + 1)..(Len(s) + 1) :
        /\ \A j \in (i + 1)..(p - 1) : IsSpace(s[j])
        /\ p = Len(s) + 1 \/ ~IsSpace(s[p])

\* where (.+) may start: \s* is greedy and backtracks, .+ needs one non-newline
GroupStarts(s, i) ==
    {p \in (i + 1)..SpaceRunEnd(s, i) : p <= Len(s) /\ s[p] # NL}

MatchAt(s, i) ==
    /\ i \in 1..Len(s)
    /\ s[i] = KEY
    /\ LineStart(s, i)
    /\ GroupStarts(s, i) # {}

GroupStart(s, i) == Max(GroupStarts(s, i))

MatchEnd(s, i) == EndOfLine(s, GroupStart(s, i))

\* re.search: leftmost match at or after position pos; 0 when there is none
SearchFrom(s, pos) ==
    LET hits == {i \in pos..Len(s) : MatchAt(s, i)}
    IN IF hits = {} THEN 0 ELSE Min(hits)

re_search(s) == SearchFrom(s, 1)

\* version_match.group(1)
group1(s, i) == SubSeq(s, GroupStart(s, i), MatchEnd(s, i))

\* ------------------------------------------- replacement template of re.sub
\* f'version: {manifest_version}' is parsed as a template: a backslash
\* escapes the next character.
RECURSIVE expand(_)
expand(t) ==
    IF t = <<>> THEN [ok |-> TRUE, out |-> <<>>]
    ELSE IF Head(t) # BS
         THEN LET r == expand(Tail(t))
              IN [ok |-> r.ok, out |-> <<Head(t)>> \o r.out]
    ELSE IF Len(t) = 1 THEN [ok |-> FALSE, out |-> <<>>]
    ELSE IF IsDigit(t[2])
         THEN IF Len(t) >= 4 /\ IsDigit(t[3]) /\ IsDigit(t[4])
              THEN LET r == expand(SubSeq(t, 5, Len(t)))
                   IN [ok |-> r.ok, out |-> <<OCT111>> \o r.out]
              ELSE [ok |-> FALSE, out |-> <<>>]
    ELSE IF t[2] = BS
         THEN LET r == expand(SubSeq(t, 3, Len(t)))
              IN [ok |-> r.ok, out |-> <<BS>> \o r.out]
    ELSE LET r == expand(SubSeq(t, 3, Len(t)))
         IN [ok |-> r.ok, out |-> <<BS, t[2]>> \o r.out]

template(v) == <<KEY, SP>> \o v

\* ------------------------------------------------ re.sub, every match
RECURSIVE SubFrom(_, _, _)
SubFrom(s, pos, repl) ==
    LET i == SearchFrom(s, pos)
    IN IF i = 0 THEN SubSeq(s, pos, Len(s))
       ELSE SubSeq(s, pos, i - 1) \o repl \o SubFrom(s, MatchEnd(s, i) + 1, repl)

re_sub(s, repl) == SubFrom(s, 1, repl)


\* =========================================================================
\* State
\* =========================================================================
VARIABLES
    manifest,    \* manifest.json as json.load sees it
    pubspec,     \* pubspec.yaml: [exists, content]
    staged,      \* pubspec.yaml in the git index: [has, content]
    syncRuns,    \* Sync runs so far
    last,        \* what the latest Sync run did
    prev,        \* what the Sync run before it did
    branch,      \* the checked-out branch ("HEAD" when detached, "" when git cannot tell)
    changed,     \* files changed between HEAD~1 and HEAD, in git's order
    head,        \* number of the latest commit
    localTags,   \* tag name -> commit it points to
    otherRefs,   \* names that resolve without being tags (branches)
    remoteTags,  \* tags published on origin
    tagLog,      \* every `git tag -a` command issued
    pushLog,     \* every `git push origin <tag>` command issued
    tagRuns,     \* Tag Creator runs so far
    lastTag      \* what the latest Tag Creator run on the current commit did

syncVars == <<manifest, pubspec, staged, syncRuns, last, prev>>

tagVars == <<branch, changed, head, localTags, otherRefs, remoteTags,
             tagLog, pushLog, tagRuns, lastTag>>

vars == <<manifest, pubspec, staged, syncRuns, last, prev, branch, changed,
          head, localTags, otherRefs, remoteTags, tagLog, pushLog, tagRuns,
          lastTag>>

\* ------------------------------------------------------------ manifest.json
\* kind "missing":   open() raises FileNotFoundError
\* kind "malformed": json.load raises JSONDecodeError
\* kind "object":    a JSON object, with or without the key "version"
\* kind "array":     a JSON array, holding the string "version" or not
ManifestOf(kind, has, v) == [kind |-> kind, hasVersion |-> has, version |-> v]

Manifests(Versions) ==
    {ManifestOf("missing", FALSE, <<>>), ManifestOf("malformed", FALSE, <<>>),
     ManifestOf("object", FALSE, <<>>), ManifestOf("array", FALSE, <<>>),
     ManifestOf("array", TRUE, <<>>)}
    \cup {ManifestOf("object", TRUE, v) : v \in Versions}

\* the exception raised by lines 27-34 / 43-50, "none" when there is none
load_error(m) ==
    CASE m.kind = "missing" -> "FileNotFoundError"
      [] m.kind = "malformed" -> "JSONDecodeError"
      [] m.kind = "array" /\ m.hasVersion -> "TypeError"
      [] OTHER -> "none"

\* =========================================================================
\* Version Sync (scripts/sync_version.py)
\* =========================================================================
NoRun == [ran |-> FALSE, start |-> <<>>, wrote |-> FALSE, added |-> FALSE,
          exc |-> "none", exit |-> 0, step |-> "none"]

Ran(start, wrote, added, exc, exit, step) ==
    [ran |-> TRUE, start |-> start, wrote |-> wrote, added |-> added,
     exc |-> exc, exit |-> exit, step |-> step]

\* a comparison of the raw capture, without .strip()
current_version_raw(s, i) == group1(s, i)

\* line 48
current_version(s, i) == strip(group1(s, i))

\* a run in which a failing `git add` is not treated as a failure
sync_exit_unchecked(exc) == IF exc \in {"none", "CalledProcessError"} THEN 0 ELSE 1

\* lines 71-75: return 0, or return 1 from `except Exception`
sync_exit(exc) == IF exc = "none" THEN 0 ELSE 1

\* line 50
in_sync(current, manifest_version) == current = manifest_version

WriteOutcomes == {"ok", "open_fails", "write_fails"}

AddOutcomes == {"ok", "fails"}

\* `git add` is reached only after a successful write
RunOutcomes ==
    {<<wr, ga>> : wr \in WriteOutcomes, ga \in AddOutcomes} \ {<<"open_fails", "fails">>, <<"write_fails", "fails">>}

\* lines 25-62 of main(): everything up to the new text of the descriptor.
\* step names where the run ends, or "write" when it goes on to lines 64-71.
sync_compute(m, p) ==
    IF load_error(m) # "none"
    THEN [step |-> "manifest", exc |-> load_error(m), new |-> <<>>]
    ELSE IF ~m.hasVersion
    THEN [step |-> "no_manifest_version", exc |-> "none", new |-> <<>>]
    ELSE IF ~p.exists
    THEN [step |-> "pubspec", exc |-> "FileNotFoundError", new |-> <<>>]
    ELSE LET i == re_search(p.content)
         IN IF i = 0
            THEN [step |-> "no_pubspec_version", exc |-> "none", new |-> <<>>]
            ELSE IF in_sync(current_version(p.content, i), m.version)
            THEN [step |-> "in_sync", exc |-> "none", new |-> <<>>]
            ELSE LET repl == expand(template(m.version))
                 IN IF ~repl.ok
                    THEN [step |-> "sub", exc |-> "re.error", new |-> <<>>]
                    ELSE [step |-> "write", exc |-> "none",
                          new |-> re_sub(p.content, repl.out)]

\* lines 64-75 of main(): write, stage, return.  wr and ga are what open/write
\* and `git add` do in this run.
sync_main(c, p, st, wr, ga) ==
    IF c.step # "write"
    THEN [file |-> p, index |-> st,
          run |-> Ran(p.content, FALSE, FALSE, c.exc, sync_exit(c.exc), c.step)]
    ELSE IF wr = "open_fails"
    THEN [file |-> p, index |-> st,
          run |-> Ran(p.content, FALSE, FALSE, "OSError", sync_exit("OSError"), "open")]
    ELSE IF wr = "write_fails"
    THEN [file |-> [exists |-> TRUE, content |-> <<>>], index |-> st,
          run |-> Ran(p.content, TRUE, FALSE, "OSError", sync_exit("OSError"), "write")]
    ELSE IF ga = "fails"
    THEN [file |-> [exists |-> TRUE, content |-> c.new], index |-> st,
          run |-> Ran(p.content, TRUE, TRUE, "CalledProcessError", sync_exit("CalledProcessError"), "add")]
    ELSE [file |-> [exists |-> TRUE, content |-> c.new],
          index |-> [has |-> TRUE, content |-> c.new],
          run |-> Ran(p.content, TRUE, TRUE, "none", sync_exit("none"), "synced")]

SyncRun ==
    /\ syncRuns < MaxRuns
    /\ \E c \in {sync_compute(manifest, pubspec)} :
          \E o \in RunOutcomes :
             LET r == sync_main(c, pubspec, staged, o[1], o[2])
             IN /\ pubspec' = r.file
                /\ staged' = r.index
                /\ last' = r.run
    /\ prev' = last
    /\ syncRuns' = syncRuns + 1
    /\ UNCHANGED manifest
    /\ UNCHANGED tagVars

\* =========================================================================
\* Tag Creator (scripts/create_version_tag.py)
\* =========================================================================
TagVersions == {<<"1">>, <<"2">>}

BranchNames == {"main", "master", "feature/x", "HEAD", ""}

\* changed-file lists, as `git diff --name-only` orders them (sorted by path)
ChangedLists ==
    {<<>>, <<"manifest.json">>, <<"pubspec.yaml">>, <<"README.md">>,
     <<"docs/manifest.json">>, <<"README.md", "manifest.json">>,
     <<"README.md", "docs/manifest.json">>, <<"manifest.json", "pubspec.yaml">>}

\* line 51
tag_name(version) == <<"v">> \o version

EmptyTags == [t \in {} |-> 0]

\* ---- what git prints and returns -----------------------------------------
\* `git rev-parse --abbrev-ref HEAD`: the name and a newline, nothing on failure
branch_stdout(b) == IF b = "" THEN <<>> ELSE <<b, NL>>

\* `git diff --name-only HEAD~1 HEAD`: one path per line
RECURSIVE diff_stdout(_)
diff_stdout(files) ==
    IF files = <<>> THEN <<>> ELSE <<Head(files), NL>> \o diff_stdout(Tail(files))

\* `git rev-parse <name>`: 0 when the name resolves to a tag or another ref
rev_parse_rc(name, tags, refs) ==
    IF name \in DOMAIN tags \/ name \in refs THEN 0 ELSE 128

\* ---- the script -----------------------------------------------------------
\* lines 22-31: stdout.strip()
exec_command_out(stdout) == strip(stdout)

\* an existence check that never finds the tag
tag_exists_never(tag, tags, refs) == FALSE

\* an existence check that looks at tags only (`git tag -l`)
tag_exists_tags_only(tag, tags, refs) == tag \in DOMAIN tags

\* lines 34-37
tag_exists(tag, tags, refs) == rev_parse_rc(tag, tags, refs) = 0

\* a branch gate that also lets a detached HEAD through
on_release_branch_or_head(current_branch) ==
    current_branch \in {<<"main">>, <<"master">>, <<"HEAD">>}

\* line 56
on_release_branch(current_branch) == current_branch \in {<<"main">>, <<"master">>}

\* a gate that passes on any changed file
has_version_changes_any(changed_files) == changed_files # <<>>

\* lines 67-72
has_version_changes(changed_files) ==
    LET changed_files_list == IF changed_files # <<>> THEN SplitNL(changed_files) ELSE <<>>
    IN \E k \in 1..Len(changed_files_list) :
          changed_files_list[k] \in {<<"manifest.json">>, <<"pubspec.yaml">>}

\* a push whose failure is raised (check=True)
tag_exit_push_checked(exc, push_rc) == IF exc = "none" /\ push_rc = 0 THEN 0 ELSE 1

\* lines 96-107: return 0 whatever the push returned, 1 from `except Exception`
tag_exit(exc, push_rc) == IF exc = "none" THEN 0 ELSE 1

NoTagRun == [ran |-> FALSE, step |-> "none", exc |-> "none", exit |-> 0,
             tag |-> <<>>, issued |-> FALSE, created |-> FALSE,
             pushed |-> FALSE, pushOk |-> FALSE,
             inManifest |-> ManifestOf("missing", FALSE, <<>>),
             inBranch |-> "", inChanged |-> <<>>, resolved |-> FALSE]

\* the record of a run that ended without issuing `git tag`
Skipped(step, exc, tag, m, b, chg, res) ==
    [ran |-> TRUE, step |-> step, exc |-> exc, exit |-> tag_exit(exc, 0),
     tag |-> tag, issued |-> FALSE, created |-> FALSE,
     pushed |-> FALSE, pushOk |-> FALSE,
     inManifest |-> m, inBranch |-> b, inChanged |-> chg, resolved |-> res]

\* main(): tg and ps are what `git tag -a` and `git push origin` do in this run.
\* git refuses to create a tag that already exists.
create_version_tag_main(m, b, chg, tags, refs, tg, ps) ==
    LET tag == tag_name(m.version)
        res == tag \in DOMAIN tags \/ tag \in refs
    IN IF load_error(m) # "none"
       THEN [run |-> Skipped("manifest", load_error(m), <<>>, m, b, chg, FALSE),
             cmd |-> "none"]
       ELSE IF ~m.hasVersion
       THEN [run |-> Skipped("no_manifest_version", "none", <<>>, m, b, chg, FALSE),
             cmd |-> "none"]
       ELSE IF ~on_release_branch(exec_command_out(branch_stdout(b)))
       THEN [run |-> Skipped("not_release_branch", "none", tag, m, b, chg, res),
             cmd |-> "none"]
       ELSE IF tag_exists(tag, tags, refs)
       THEN [run |-> Skipped("tag_exists", "none", tag, m, b, chg, res),
             cmd |-> "none"]
       ELSE IF ~has_version_changes(exec_command_out(diff_stdout(chg)))
       THEN [run |-> Skipped("no_version_changes", "none", tag, m, b, chg, res),
             cmd |-> "none"]
       ELSE IF tg = "fails" \/ tag \in DOMAIN tags
       THEN [run |-> [Skipped("tag_failed", "CalledProcessError", tag, m, b, chg, res)
                        EXCEPT !.issued = TRUE],
             cmd |-> "tag"]
       ELSE [run |-> [ran |-> TRUE, step |-> "pushed", exc |-> "none",
                      exit |-> tag_exit("none", IF ps = "ok" THEN 0 ELSE 1),
                      tag |-> tag, issued |-> TRUE, created |-> TRUE,
                      pushed |-> TRUE, pushOk |-> (ps = "ok"),
                      inManifest |-> m, inBranch |-> b, inChanged |-> chg,
                      resolved |-> res],
             cmd |-> "tag_push"]

TagOutcomes == {<<"ok", "ok">>, <<"ok", "fails">>, <<"fails", "ok">>}

TagRun ==
    /\ tagRuns < MaxTagRuns
    /\ \E o \in TagOutcomes :
          LET r == create_version_tag_main(manifest, branch, changed, localTags,
                                           otherRefs, o[1], o[2])
              tag == r.run.tag
          IN /\ lastTag' = r.run
             /\ localTags' = IF r.run.created
                             THEN [t \in DOMAIN localTags \cup {tag} |->
                                      IF t = tag THEN head ELSE localTags[t]]
                             ELSE localTags
             /\ remoteTags' = IF r.run.pushOk THEN remoteTags \cup {tag} ELSE remoteTags
             /\ tagLog' = IF r.run.issued
                          THEN Append(tagLog, [tag |-> tag, resolved |-> r.run.resolved,
                                               ok |-> r.run.created, commit |-> head])
                          ELSE tagLog
             /\ pushLog' = IF r.run.pushed
                           THEN Append(pushLog, [tag |-> tag, ok |-> r.run.pushOk])
                           ELSE pushLog
    /\ tagRuns' = tagRuns + 1
    /\ UNCHANGED <<manifest, branch, changed, head, otherRefs>>
    /\ UNCHANGED <<pubspec, staged, syncRuns, last, prev>>

\* a new commit: the manifest, the branch and the changed files are whatever
\* the developer committed
Commit ==
    /\ head < MaxCommits
    /\ head' = head + 1
    /\ manifest' \in Manifests(TagVersions)
    /\ branch' \in BranchNames
    /\ changed' \in ChangedLists
    /\ lastTag' = NoTagRun
    /\ UNCHANGED <<localTags, otherRefs, remoteTags, tagLog, pushLog, tagRuns>>
    /\ UNCHANGED <<pubspec, staged, syncRuns, last, prev>>

InitTag ==
    /\ manifest \in Manifests(TagVersions)
    /\ branch \in BranchNames
    /\ changed \in ChangedLists
    /\ head = 1
    /\ localTags \in {EmptyTags, [t \in {tag_name(<<"1">>)} |-> 0]}
    /\ otherRefs \in {{}, {tag_name(<<"2">>)}}
    /\ remoteTags = {}
    /\ tagLog = <<>>
    /\ pushLog = <<>>
    /\ tagRuns = 0
    /\ lastTag = NoTagRun
    /\ pubspec = [exists |-> FALSE, content |-> <<>>]
    /\ staged = [has |-> FALSE, content |-> <<>>]
    /\ syncRuns = 0
    /\ last = NoRun
    /\ prev = NoRun

NextTag == TagRun \/ Commit

SpecTag == InitTag /\ [][NextTag]_vars

\* descriptors shaped like a real pubspec.yaml: a name line, a version line,
\* then another line (a second version: line, an indented one, or a plain one)
SampleDescriptors ==
    {<<"1", NL, KEY, SP, "1", NL, KEY, SP, "1", "1", "1", NL>>,
     <<"1", NL, KEY, SP, "1", NL, SP, KEY, SP, "1", "1", NL>>,
     <<"1", NL, KEY, SP, "1", "1", SP, NL, "1", NL>>,
     <<KEY, NL, "1", NL, "1", NL>>}

InitSync ==
    /\ manifest \in Manifests(SeqsUpTo(VerChar, MaxVerLen))
    /\ pubspec \in {[exists |-> FALSE, content |-> <<>>]}
                   \cup {[exists |-> TRUE, content |-> c] :
                            c \in SeqsUpTo(DescChar, MaxDescLen) \cup SampleDescriptors}
    /\ staged = [has |-> FALSE, content |-> <<>>]
    /\ syncRuns = 0
    /\ last = NoRun
    /\ prev = NoRun
    /\ branch = ""
    /\ changed = <<>>
    /\ head = 0
    /\ localTags = EmptyTags
    /\ otherRefs = {}
    /\ remoteTags = {}
    /\ tagLog = <<>>
    /\ pushLog = <<>>
    /\ tagRuns = 0
    /\ lastTag = NoTagRun

NextSync == SyncRun

SpecSync == InitSync /\ [][NextSync]_vars


\* =========================================================================
\* Properties of Version Sync
\* =========================================================================
\* the manifest was loaded and has a version field
HasManifestVersion == manifest.kind = "object" /\ manifest.hasVersion

\* the version field of a descriptor text, as Sync parses it
ParsedVersion(s) == strip(group1(s, re_search(s)))

\* number of the line on which position i lies
LineOf(s, i) == 1 + Cardinality({j \in 1..(i - 1) : s[j] = NL})

\* C1: after a Sync run that returns 0, for a manifest with a version field
\* and a descriptor that had a matching version: line, the version parsed from
\* the descriptor equals the manifest's version.
C1_SyncConverges ==
    (/\ last.ran
     /\ last.exit = 0
     /\ HasManifestVersion
     /\ pubspec.exists
     /\ re_search(last.start) # 0)
    => (/\ re_search(pubspec.content) # 0
        /\ ParsedVersion(pubspec.content) = manifest.version)

\* the manifest's version is a non-empty run of plain characters
PlainVersion ==
    /\ manifest.version # <<>>
    /\ \A i \in 1..Len(manifest.version) : manifest.version[i] = "1"

\* the first version: line of text s carries its value on the same line
ValueOnKeyLine(s) ==
    LineOf(s, MatchEnd(s, re_search(s))) = LineOf(s, re_search(s))

\* C4: when Sync rewrites the descriptor, the text keeps its number of lines
\* and every line other than the first matched version: line is unchanged
\* (stated for a plain manifest version and a version: line that carries its
\* value, where the rewrite cannot add or join lines).
C4_OnlyFirstVersionLineChanges ==
    (/\ last.ran
     /\ last.step = "synced"
     /\ PlainVersion
     /\ ValueOnKeyLine(last.start))
    => LET before == SplitNL(last.start)
           after == SplitNL(pubspec.content)
           k == LineOf(last.start, re_search(last.start))
       IN /\ Len(after) = Len(before)
          /\ \A j \in 1..Len(before) : j # k => after[j] = before[j]

\* the run started with the descriptor's version equal to the manifest's
InSyncAtStart ==
    /\ HasManifestVersion
    /\ pubspec.exists
    /\ re_search(last.start) # 0
    /\ ParsedVersion(last.start) = manifest.version

\* C5: a run that starts with the descriptor's version equal to the manifest's
\* writes nothing, stages nothing, leaves the file as it was and returns 0
\* (stated by contraposition: a run that did any of these did not start in
\* sync); a run that writes or stages started with the two versions different.
C5_InSyncIsNoOp ==
    /\ (/\ last.ran
        /\ ~last.wrote
        /\ ~last.added
        /\ (last.exit # 0 \/ pubspec.content # last.start))
       => ~InSyncAtStart
    /\ (last.ran /\ (last.wrote \/ last.added))
       => (/\ HasManifestVersion
           /\ re_search(last.start) # 0
           /\ ParsedVersion(last.start) # manifest.version)

\* C5 witness: a run found a descriptor whose version line already carried the
\* manifest's version.
C5_Witness ==
    /\ last.ran
    /\ last.step = "in_sync"
    /\ Len(manifest.version) > 0
    /\ ParsedVersion(last.start) = manifest.version

\* C6: two Sync runs in a row, neither raising, with the manifest unchanged:
\* the descriptor after the second run is the descriptor after the first.
C6_SyncIdempotent ==
    (/\ syncRuns >= 2
     /\ HasManifestVersion
     /\ prev.exc = "none"
     /\ last.exc = "none"
     /\ re_search(prev.start) # 0)
    => pubspec.content = last.start

\* C10: a run in which an exception was raised returns 1 and undoes nothing:
\* after a failing `git add` the descriptor holds the rewritten text.
C10_ExceptionExitsOneNoRollback ==
    /\ (last.ran /\ last.exc # "none") => last.exit = 1
    /\ (last.ran /\ last.step = "add")
       => (/\ last.exit = 1
           /\ last.wrote
           /\ pubspec.exists
           /\ pubspec.content = re_sub(last.start, expand(template(manifest.version)).out)
           /\ ParsedVersion(last.start) # manifest.version)
    /\ (last.ran /\ last.exc # "none" /\ ~last.wrote) => pubspec.content = last.start

\* C10 witness: `git add` failed after the descriptor was rewritten with a
\* different text.
C10_Witness ==
    /\ last.ran
    /\ last.step = "add"
    /\ last.exit = 1
    /\ pubspec.content # last.start


\* =========================================================================
\* Properties of Tag Creator
\* =========================================================================
ReleaseBranches == {"main", "master"}

VersionFiles == {"manifest.json", "pubspec.yaml"}

\* successful `git tag -a` commands for tag t
Creations(t) == {k \in DOMAIN tagLog : tagLog[k].tag = t /\ tagLog[k].ok}

\* `git push origin t` commands
Pushes(t) == {k \in DOMAIN pushLog : pushLog[k].tag = t}

\* the latest run read the manifest without an exception
ManifestRead(m) ==
    /\ m.kind \notin {"missing", "malformed"}
    /\ ~(m.kind = "array" /\ m.hasVersion)

\* the latest run found, at its existence check, the tag it had created before
RerunOnCreatedTag(t) ==
    lastTag.ran /\ lastTag.step = "tag_exists" /\ lastTag.tag = t

\* C2: a tag that Tag Creator created is created exactly once, and once a
\* later run has come back to it, it is published on the remote.
C2_CreatedAndPublishedExactlyOnce ==
    \A k \in DOMAIN tagLog :
        tagLog[k].ok =>
            /\ Cardinality(Creations(tagLog[k].tag)) = 1
            /\ tagLog[k].tag \in DOMAIN localTags
            /\ RerunOnCreatedTag(tagLog[k].tag) => tagLog[k].tag \in remoteTags

\* C2 (amended): a tag is created at most once and pushed at most once, by the
\* run that created it; it is on the remote exactly when that one push
\* succeeded; a run that finds the name already resolving issues no command.
C2_CreatedOncePushedBestEffort ==
    /\ \A k \in DOMAIN tagLog :
          LET t == tagLog[k].tag
          IN /\ Cardinality(Creations(t)) <= 1
             /\ Cardinality(Pushes(t)) <= 1
             /\ tagLog[k].ok => t \in DOMAIN localTags
             /\ (Pushes(t) # {}) <=> (Creations(t) # {})
    /\ \A t \in remoteTags : \E k \in Pushes(t) : pushLog[k].ok
    /\ \A k \in DOMAIN pushLog : pushLog[k].ok <=> pushLog[k].tag \in remoteTags
    /\ (lastTag.ran /\ lastTag.resolved) =>
          (~lastTag.issued /\ ~lastTag.pushed /\ lastTag.exit = 0)

\* C2 witness: the push of a created tag failed and a later run skipped the
\* tag at the existence check, leaving it unpublished.
C2_Witness ==
    /\ lastTag.ran
    /\ lastTag.step = "tag_exists"
    /\ Creations(lastTag.tag) # {}
    /\ \E k \in Pushes(lastTag.tag) : ~pushLog[k].ok
    /\ lastTag.tag \in DOMAIN localTags
    /\ lastTag.tag \notin remoteTags

\* C3: no `git tag -a` command is ever issued for a name that resolved when
\* the run checked it, and every tag still points where it first pointed.
C3_NeverCreatesResolvingTag ==
    /\ \A k \in DOMAIN tagLog : ~tagLog[k].resolved
    /\ \A t \in DOMAIN localTags :
          IF Creations(t) = {}
          THEN localTags[t] = 0
          ELSE \A k \in Creations(t) : tagLog[k].commit = localTags[t]

\* C3 witness: a run on a release branch, whose commit touched a version file,
\* met a name that already resolved, after some tag had been created.
C3_Witness ==
    /\ lastTag.ran
    /\ lastTag.step = "tag_exists"
    /\ lastTag.resolved
    /\ lastTag.inBranch \in ReleaseBranches
    /\ \E i \in DOMAIN lastTag.inChanged : lastTag.inChanged[i] \in VersionFiles
    /\ tagLog # <<>>

\* C7: `git tag` is issued only on main or master; on any other branch the
\* run creates no tag, pushes nothing and returns 0.
C7_OtherBranchSkipsWithZero ==
    /\ (lastTag.ran /\ lastTag.issued) => lastTag.inBranch \in ReleaseBranches
    /\ (lastTag.ran /\ lastTag.inBranch \notin ReleaseBranches) =>
          (~lastTag.issued /\ ~lastTag.created /\ ~lastTag.pushed /\ lastTag.exit = 0)

\* C7 (amended): as C7, but the exit code is 0 only when the manifest was read
\* without an exception; otherwise it is 1, still with no tag and no push.
C7_OtherBranchSkips ==
    /\ (lastTag.ran /\ lastTag.issued) => lastTag.inBranch \in ReleaseBranches
    /\ (lastTag.ran /\ lastTag.inBranch \notin ReleaseBranches) =>
          /\ ~lastTag.issued
          /\ ~lastTag.created
          /\ ~lastTag.pushed
          /\ lastTag.exit = IF ManifestRead(lastTag.inManifest) THEN 0 ELSE 1

\* C7 witness: every other gate would have passed, but the branch is feature/x.
C7_Witness ==
    /\ lastTag.ran
    /\ lastTag.step = "not_release_branch"
    /\ lastTag.inBranch = "feature/x"
    /\ ~lastTag.resolved
    /\ \E i \in DOMAIN lastTag.inChanged : lastTag.inChanged[i] \in VersionFiles
    /\ lastTag.exit = 0

\* C8: when the changed-file list holds neither manifest.json nor
\* pubspec.yaml, the run creates no tag, pushes nothing and returns 0.
C8_UntouchedSkipsWithZero ==
    (/\ lastTag.ran
     /\ \A i \in DOMAIN lastTag.inChanged : lastTag.inChanged[i] \notin VersionFiles)
    => (~lastTag.issued /\ ~lastTag.created /\ ~lastTag.pushed /\ lastTag.exit = 0)

\* C8 (amended): as C8, but the exit code is 0 only when the manifest was read
\* without an exception; otherwise it is 1, still with no tag and no push.
C8_UntouchedSkips ==
    (/\ lastTag.ran
     /\ \A i \in DOMAIN lastTag.inChanged : lastTag.inChanged[i] \notin VersionFiles)
    => /\ ~lastTag.issued
       /\ ~lastTag.created
       /\ ~lastTag.pushed
       /\ lastTag.exit = IF ManifestRead(lastTag.inManifest) THEN 0 ELSE 1

\* C8 witness: on a release branch with a fresh tag name, the commit changed
\* files, none of them manifest.json or pubspec.yaml.
C8_Witness ==
    /\ lastTag.ran
    /\ lastTag.step = "no_version_changes"
    /\ lastTag.inChanged # <<>>
    /\ lastTag.inBranch \in ReleaseBranches
    /\ ~lastTag.resolved
    /\ lastTag.exit = 0

\* C9: when the tag was created and the push returned non-zero, the run
\* returns 0 and the tag is in the local repository, on the current commit.
C9_PushFailureIsNotFatal ==
    (lastTag.ran /\ lastTag.created /\ lastTag.pushed /\ ~lastTag.pushOk)
    => /\ lastTag.exit = 0
       /\ lastTag.tag \in DOMAIN localTags
       /\ localTags[lastTag.tag] = head
       /\ lastTag.tag \notin remoteTags

\* C9 witness: all gates passed, the tag was created, the push failed.
C9_Witness ==
    /\ lastTag.ran
    /\ lastTag.step = "pushed"
    /\ lastTag.created
    /\ ~lastTag.pushOk
    /\ lastTag.tag \in DOMAIN localTags

====
